---- MODULE Spec2Model ----
(***************************************************************************)
(* Model of the Teiko clinical-trial dashboard: CSV ingestion into the     *)
(* SQLite store (database.py), the analysis queries (analysis.py) and the  *)
(* Streamlit script that drives them (main.py).                            *)
(*                                                                         *)
(* Numbers.  Percentages are held in hundredths (12.34 % is 1234), the U   *)
(* statistic in hundredths, a p-value is an exact fraction num / den and    *)
(* its rounding to 4 places is held in units of 1e-4 (0.05 is 500).        *)
(* A float NaN is the value NaN below.  SQL NULL / polars null is Null.    *)
(***************************************************************************)
EXTENDS Integers, Sequences, FiniteSets, TLC

VARIABLES
    csv,            \* rows of data/cell-count.csv (the source file)
    db_exists,      \* Path(DB_PATH).exists()
    projects,       \* table projects      (set of rows, primary key id)
    subjects,       \* table subjects      (set of rows, primary key id)
    samples,        \* table samples       (set of rows, primary key id)
    cell_counts,    \* table cell_counts   (sequence; autoincrement id = index)
    load_error,     \* outcome of the last load_csv call
    ingested,       \* history: some load_csv call has committed
    start,          \* what the last run of the main.py ingestion guard did
    ran,            \* tabs rendered so far in the current script run
    freq_df,        \* tab1: get_frequency_table()
    resp_df,        \* tab2: get_responder_frequencies()
    mwu_args,       \* tab2: the arguments handed to mannwhitneyu, per call
    sig_df,         \* tab2: get_significance_tests(resp_df)
    sig_error,      \* tab2: the exception get_significance_tests ended in
    baseline,       \* tab3: get_baseline_samples()
    project_counts, \* tab3: per-project sample counts
    response_counts,\* tab3: per-response subject counts
    sex_counts,     \* tab3: per-sex subject counts
    avg_bcell       \* tab3: get_avg_bcell_male_responders()

store == <<projects, subjects, samples, cell_counts>>
tab2 == <<resp_df, mwu_args, sig_df, sig_error>>
tab3 == <<baseline, project_counts, response_counts, sex_counts, avg_bcell>>
outputs == <<freq_df, tab2, tab3>>
vars == <<csv, db_exists, store, load_error, ingested, start, ran, outputs>>

Null == "null"
NaN == -1

\* database.py:68
CELL_POPULATIONS == <<"b_cell", "cd8_t_cell", "cd4_t_cell", "nk_cell", "monocyte">>

---------------------------------------------------------------------------
(* Bounded inputs: the rows a source file is drawn from.                   *)

MaxRows == 3
MaxStatRows == 2
MaxResponders == 3
MaxNonResponders == 61

SubjectA == [project |-> "prj1", subject |-> "sbj1", condition |-> "melanoma",
             age |-> 50, sex |-> "M", treatment |-> "miraclib", response |-> "yes"]
\* the same subject id as SubjectA with another response column
SubjectA2 == [project |-> "prj1", subject |-> "sbj1", condition |-> "melanoma",
              age |-> 50, sex |-> "M", treatment |-> "miraclib", response |-> Null]
SubjectB == [project |-> "prj2", subject |-> "sbj2", condition |-> "melanoma",
             age |-> 60, sex |-> "F", treatment |-> "miraclib", response |-> "no"]

\* a subject outside the melanoma / miraclib cohort
SubjectD == [project |-> "prj2", subject |-> "sbj3", condition |-> "carcinoma",
             age |-> 70, sex |-> "F", treatment |-> Null, response |-> Null]

Sample1 == [sample |-> "smp1", sample_type |-> "PBMC", time_from_treatment_start |-> 0]
Sample2 == [sample |-> "smp2", sample_type |-> "PBMC", time_from_treatment_start |-> 0]
Sample3 == [sample |-> "smp3", sample_type |-> "PBMC", time_from_treatment_start |-> 0]
\* the same sample id as Sample1 with other sample columns
Sample1Late == [sample |-> "smp1", sample_type |-> "WB", time_from_treatment_start |-> 7]

CountsV == [b_cell |-> 2, cd8_t_cell |-> 9, cd4_t_cell |-> 9, nk_cell |-> 9, monocyte |-> 9]
CountsZ == [b_cell |-> 0, cd8_t_cell |-> 0, cd4_t_cell |-> 0, nk_cell |-> 0, monocyte |-> 0]

MakeRows(subjs, smps, cnts) == {a @@ b @@ c : a \in subjs, b \in smps, c \in cnts}

IngestRows == MakeRows({SubjectA, SubjectA2, SubjectB, SubjectD},
                       {Sample1, Sample2, Sample3, Sample1Late}, {CountsV})
StatRows == MakeRows({SubjectA, SubjectB}, {Sample1, Sample2}, {CountsV, CountsZ})

Csvs(R, n) == UNION {[1..k -> R] : k \in 0..n}

---------------------------------------------------------------------------
(* polars helpers                                                          *)

\* DataFrame.select(cols): the rows restricted to the named columns
Select(df, cols) == [i \in 1..Len(df) |-> [c \in cols |-> df[i][c]]]

\* DataFrame.unique(): one row per distinct row value
RECURSIVE Unique(_)
Unique(df) ==
    IF df = <<>> THEN <<>>
    ELSE LET rest == Unique(SubSeq(df, 1, Len(df) - 1))
             last == df[Len(df)]
         IN IF \E i \in 1..Len(rest) : rest[i] = last THEN rest ELSE Append(rest, last)

RECURSIVE Concat(_)
Concat(seqs) == IF seqs = <<>> THEN <<>> ELSE Head(seqs) \o Concat(Tail(seqs))

Range(s) == {s[i] : i \in 1..Len(s)}

---------------------------------------------------------------------------
(* database.py: load_csv                                                   *)

\* database.py:81-83
NewProjects(df) ==
    LET rows == Unique(Select(df, {"project"}))
    IN [i \in 1..Len(rows) |-> [id |-> rows[i].project]]

\* database.py:85-97
NewSubjects(df) ==
    LET rows == Unique(Select(df, {"subject", "project", "condition", "age", "sex",
                                   "treatment", "response"}))
    IN [i \in 1..Len(rows) |->
          [id |-> rows[i].subject, project_id |-> rows[i].project,
           condition |-> rows[i].condition, age |-> rows[i].age, sex |-> rows[i].sex,
           treatment |-> rows[i].treatment, response |-> rows[i].response]]

\* database.py:99-108
NewSamples(df) ==
    LET rows == Unique(Select(df, {"sample", "subject", "sample_type",
                                   "time_from_treatment_start"}))
    IN [i \in 1..Len(rows) |->
          [id |-> rows[i].sample, subject_id |-> rows[i].subject,
           sample_type |-> rows[i].sample_type,
           time_from_treatment_start |-> rows[i].time_from_treatment_start]]

\* database.py:110-121: unpivot lists column by column, each column in row order
NewCellCounts(df) ==
    Concat([p \in 1..Len(CELL_POPULATIONS) |->
              [i \in 1..Len(df) |->
                 [sample_id |-> df[i].sample, population |-> CELL_POPULATIONS[p],
                  count |-> df[i][CELL_POPULATIONS[p]]]]])

\* variant of PrimaryKeyViolated for a store that checks a primary key only among
\* the rows of one flush and lets an INSERT overwrite a stored row
PrimaryKeyViolatedInFlush(table, new) ==
    \E i, j \in 1..Len(new) : i # j /\ new[i].id = new[j].id

\* The INSERTs of one flush violate a primary key: an id is inserted twice, or is
\* already in the table (database.py:13, 24, 42: primary_key=True).
PrimaryKeyViolated(table, new) ==
    \/ \E i, j \in 1..Len(new) : i # j /\ new[i].id = new[j].id
    \/ \E i \in 1..Len(new) : \E t \in table : t.id = new[i].id

\* session.commit() (database.py:123) flushes every pending object in one
\* transaction: any violated primary key raises IntegrityError and rolls back.
IntegrityError(df) ==
    \/ PrimaryKeyViolated(projects, NewProjects(df))
    \/ PrimaryKeyViolated(subjects, NewSubjects(df))
    \/ PrimaryKeyViolated(samples, NewSamples(df))

\* load_csv(engine, csv_path), database.py:77-123
load_csv(df) ==
    IF IntegrityError(df)
    THEN /\ load_error' = "IntegrityError"
         /\ UNCHANGED <<store, ingested>>
    ELSE /\ load_error' = "none"
         /\ projects' = projects \cup Range(NewProjects(df))
         /\ subjects' = subjects \cup Range(NewSubjects(df))
         /\ samples' = samples \cup Range(NewSamples(df))
         /\ cell_counts' = cell_counts \o NewCellCounts(df)
         /\ ingested' = TRUE

---------------------------------------------------------------------------
(* analysis.py: the queries                                                *)

\* lexicographic order of the sample ids and of the population names
SampleOrder == <<"smp1", "smp2", "smp3">>
PopulationOrder == <<"b_cell", "cd4_t_cell", "cd8_t_cell", "monocyte", "nk_cell">>

\* the row of a table with the given primary key (none or one)
RowsWithId(table, id) ==
    LET hit == {t \in table : t.id = id}
    IN IF hit = {} THEN <<>> ELSE <<CHOOSE t \in hit : TRUE>>

\* FROM cell_counts cc JOIN samples s ON cc.sample_id = s.id
\*                     JOIN subjects sub ON s.subject_id = sub.id
\* (analysis.py:20-22, 55-57), in cell_counts order
JoinCellCounts ==
    Concat([i \in 1..Len(cell_counts) |->
        LET cc == cell_counts[i]
            s == RowsWithId(samples, cc.sample_id)
            sub == IF s = <<>> THEN <<>> ELSE RowsWithId(subjects, s[1].subject_id)
        IN IF sub = <<>> THEN <<>>
           ELSE << [sample_id |-> cc.sample_id, population |-> cc.population,
                    count |-> cc.count, project_id |-> sub[1].project_id,
                    condition |-> sub[1].condition, treatment |-> sub[1].treatment,
                    response |-> sub[1].response, sex |-> sub[1].sex,
                    sample_type |-> s[1].sample_type,
                    time_from_treatment_start |-> s[1].time_from_treatment_start] >>])

RECURSIVE SumCounts(_)
SumCounts(df) == IF df = <<>> THEN 0 ELSE Head(df).count + SumCounts(Tail(df))

\* df.group_by("sample_id").agg(pl.col("count").sum()), analysis.py:25-27, 63-65
TotalCount(df, sample_id) ==
    SumCounts(SelectSeq(df, LAMBDA r : r.sample_id = sample_id))

\* (count / total_count * 100).round(2), analysis.py:32-33, 70-71, in hundredths.
\* Float division: 0 / 0 is NaN, and NaN stays NaN through * and round.
Percentage(count, total_count) ==
    IF total_count = 0 THEN NaN
    ELSE (20000 * count + total_count) \div (2 * total_count)

\* .sort(<sample column>, "population"), analysis.py:47, 75 (rows with equal keys
\* keep their order)
SortBySamplePopulation(df, sample_col) ==
    Concat([k \in 1..(Len(SampleOrder) * Len(PopulationOrder)) |->
        LET smp == SampleOrder[((k - 1) \div Len(PopulationOrder)) + 1]
            pop == PopulationOrder[((k - 1) % Len(PopulationOrder)) + 1]
        IN SelectSeq(df, LAMBDA r : r[sample_col] = smp /\ r.population = pop)])

\* get_frequency_table(), analysis.py:15-48
get_frequency_table ==
    LET df == JoinCellCounts
        out == [i \in 1..Len(df) |->
                  [sample |-> df[i].sample_id,
                   project_id |-> df[i].project_id,
                   condition |-> df[i].condition,
                   treatment |-> df[i].treatment,
                   sample_type |-> df[i].sample_type,
                   total_count |-> TotalCount(df, df[i].sample_id),
                   population |-> df[i].population,
                   count |-> df[i].count,
                   percentage |-> Percentage(df[i].count, TotalCount(df, df[i].sample_id))]]
    IN SortBySamplePopulation(out, "sample")

\* variant of InResponderCohort whose WHERE clause also drops the B cell rows
InResponderCohortNoBCell(r) ==
    /\ r.condition = "melanoma" /\ r.sample_type = "PBMC" /\ r.treatment = "miraclib"
    /\ r.population # "b_cell"

\* WHERE sub.condition = 'melanoma' AND s.sample_type = 'PBMC'
\*   AND sub.treatment = 'miraclib', analysis.py:58-60
InResponderCohort(r) ==
    r.condition = "melanoma" /\ r.sample_type = "PBMC" /\ r.treatment = "miraclib"

\* get_responder_frequencies(), analysis.py:51-76
get_responder_frequencies ==
    LET df == SelectSeq(JoinCellCounts, InResponderCohort)
        out == [i \in 1..Len(df) |->
                  [sample_id |-> df[i].sample_id,
                   population |-> df[i].population,
                   percentage |-> Percentage(df[i].count, TotalCount(df, df[i].sample_id)),
                   response |-> df[i].response]]
    IN SortBySamplePopulation(out, "sample_id")

\* get_baseline_samples(), analysis.py:96-107, listed by sample id
get_baseline_samples ==
    Concat([k \in 1..Len(SampleOrder) |->
        LET s == RowsWithId(samples, SampleOrder[k])
            sub == IF s = <<>> THEN <<>> ELSE RowsWithId(subjects, s[1].subject_id)
        IN IF /\ sub # <<>>
              /\ sub[1].condition = "melanoma"
              /\ s[1].sample_type = "PBMC"
              /\ s[1].time_from_treatment_start = 0
              /\ sub[1].treatment = "miraclib"
           THEN << [sample_id |-> s[1].id, project_id |-> sub[1].project_id,
                    subject_id |-> sub[1].id, response |-> sub[1].response,
                    sex |-> sub[1].sex] >>
           ELSE <<>>])

---------------------------------------------------------------------------
(* main.py: tab3, subset analysis                                          *)

\* variant of BaselineSubjects that leaves out .unique(): one row per sample
BaselineSubjectsPerSample(cohort) == Select(cohort, {"subject_id", "response", "sex"})

\* main.py:150
BaselineSubjects(cohort) == Unique(Select(cohort, {"subject_id", "response", "sex"}))

\* df.group_by(col).agg(pl.col(...).count().alias("n")).sort(col), main.py:152-154,
\* 163-164; keys lists the values of col in sort order (null first)
GroupCount(df, col, keys) ==
    Concat([k \in 1..Len(keys) |->
        LET n == Len(SelectSeq(df, LAMBDA r : r[col] = keys[k]))
        IN IF n = 0 THEN <<>> ELSE << [key |-> keys[k], n |-> n] >>])

ProjectOrder == <<"prj1", "prj2">>
ResponseOrder == <<Null, "no", "yes">>
SexOrder == <<"F", "M">>

RECURSIVE SumN(_)
SumN(groups) == IF groups = <<>> THEN 0 ELSE Head(groups).n + SumN(Tail(groups))

\* get_avg_bcell_male_responders(), analysis.py:110-123, in hundredths; the mean of
\* no rows is None, and round(None, 2) raises TypeError
get_avg_bcell_male_responders ==
    LET df == SelectSeq(JoinCellCounts,
                 LAMBDA r : /\ r.condition = "melanoma" /\ r.sex = "M"
                            /\ r.response = "yes" /\ r.time_from_treatment_start = 0
                            /\ r.population = "b_cell")
    IN IF df = <<>> THEN [error |-> "TypeError", value |-> NaN]
       ELSE [error |-> "none",
             value |-> (200 * SumCounts(df) + Len(df)) \div (2 * Len(df))]

---------------------------------------------------------------------------
(* analysis.py: get_significance_tests                                     *)

\* A p-value is a fraction num / den; NaN has den = 0.
NaNP == [num |-> 0, den |-> 0]

\* the p-values the normal approximation may return (scipy's "asymptotic" method,
\* not computed here), as fractions of 100000
PGrid == {[num |-> n, den |-> 100000] : n \in {1234, 4997, 5000, 100000}}
\* what mannwhitneyu does with an empty sample depends on the installed scipy:
\* it raises ValueError("`x` and `y` must be of nonzero size.") or returns NaNs
ScipyBehaviours == {"raises", "nan"}

\* df.filter(population == pop).filter(response == label)["percentage"].to_list(),
\* analysis.py:83-85
GroupPercentages(df, pop, label) ==
    LET rows == SelectSeq(df, LAMBDA r : r.population = pop /\ r.response = label)
    IN [i \in 1..Len(rows) |-> rows[i].percentage]

\* twice the Mann-Whitney U statistic of the first sample: the pairs (a, b) with
\* a > b count 1, those with a = b count 1/2
TwiceU(x, y) ==
    LET score(a, b) == IF a > b THEN 2 ELSE IF a = b THEN 1 ELSE 0
        RECURSIVE row(_, _)
        row(a, j) == IF j = 0 THEN 0 ELSE score(a, y[j]) + row(a, j - 1)
        RECURSIVE all(_)
        all(i) == IF i = 0 THEN 0 ELSE row(x[i], Len(y)) + all(i - 1)
    IN all(Len(x))

RECURSIVE Binomial(_, _)
Binomial(n, k) == IF k = 0 THEN 1 ELSE (Binomial(n - 1, k - 1) * n) \div k

\* the number of orderings of m first-sample and n second-sample values, without
\* ties, whose U statistic is at least k
RECURSIVE TailCount(_, _, _)
TailCount(k, m, n) ==
    IF k <= 0 THEN Binomial(m + n, m)
    ELSE IF k > m * n THEN 0
    ELSE TailCount(k - n, m - 1, n) + TailCount(k, m, n - 1)

\* scipy's "exact" method, two-sided: p = 2 * P(U >= max(U1, U2)), clipped to 1
ExactP(x, y) ==
    LET n1 == Len(x)
        n2 == Len(y)
        U1 == TwiceU(x, y) \div 2
        U == IF U1 >= n1 * n2 - U1 THEN U1 ELSE n1 * n2 - U1
        all == Binomial(n1 + n2, n1)
        tail == 2 * TailCount(U, n1, n2)
    IN [num |-> IF tail > all THEN all ELSE tail, den |-> all]

\* some value occurs twice among the pooled samples
HasTies(x, y) ==
    LET xy == x \o y
    IN \E i, j \in 1..Len(xy) : i # j /\ xy[i] = xy[j]

\* method="auto" of mannwhitneyu takes the normal approximation when both samples
\* have more than 8 values or any values tie, the exact distribution otherwise
Asymptotic(x, y) ==
    /\ x # <<>> /\ y # <<>>
    /\ NaN \notin Range(x) \cup Range(y)
    /\ (Len(x) > 8 /\ Len(y) > 8) \/ HasTies(x, y)

\* scipy.stats.mannwhitneyu(x, y, alternative="two-sided"), analysis.py:86, with
\* method="auto": the normal approximation when both samples have more than 8
\* values or any values tie, the exact distribution otherwise.  lib is the
\* library's way with an empty sample, approx the p-value its normal
\* approximation returns.  stat is in hundredths.
mannwhitneyu(x, y, lib, approx) ==
    IF x = <<>> \/ y = <<>>
    THEN IF lib = "raises" THEN [raised |-> TRUE, stat |-> NaN, p |-> NaNP]
         ELSE [raised |-> FALSE, stat |-> NaN, p |-> NaNP]
    ELSE IF NaN \in Range(x) \cup Range(y)
    THEN [raised |-> FALSE, stat |-> NaN, p |-> NaNP]
    ELSE IF Asymptotic(x, y)
    THEN [raised |-> FALSE, stat |-> 50 * TwiceU(x, y), p |-> approx]
    ELSE [raised |-> FALSE, stat |-> 50 * TwiceU(x, y), p |-> ExactP(x, y)]

\* round(p, 4), analysis.py:90, in units of 1e-4
Round4(p) == IF p = NaNP THEN NaN ELSE (20000 * p.num + p.den) \div (2 * p.den)

\* p < 0.05, analysis.py:91 (a comparison with NaN is False)
Significant(p) == p # NaNP /\ 100 * p.num < 5 * p.den

\* analysis.py:87-92 (round(stat, 2) leaves a multiple of 0.5 as it is)
SignificanceRow(pop, res) ==
    [population |-> pop,
     u_statistic |-> res.stat,
     p_value |-> Round4(res.p),
     significant |-> Significant(res.p)]

\* an exception: its type and the population names its message carries
NoError == [type |-> "none", populations |-> {}]

\* the populations of df whose test takes the normal approximation
AsymptoticPopulations(df) ==
    {q \in Range(CELL_POPULATIONS) :
        Asymptotic(GroupPercentages(df, q, "yes"), GroupPercentages(df, q, "no"))}

\* get_significance_tests(df), analysis.py:79-93.  approx gives, per population,
\* the p-value of the library's normal approximation.  The result holds the rows,
\* the exception the call ended in, and the arguments of the mannwhitneyu calls made.
get_significance_tests(df, lib, approx) ==
    LET pops == SelectSeq(PopulationOrder,
                          LAMBDA q : \E i \in 1..Len(df) : df[i].population = q)
        x(k) == GroupPercentages(df, pops[k], "yes")
        y(k) == GroupPercentages(df, pops[k], "no")
        res(k) == mannwhitneyu(x(k), y(k), lib, approx[pops[k]])
        raising == {k \in 1..Len(pops) : res(k).raised}
        made == IF raising = {} THEN Len(pops)
                ELSE CHOOSE k \in raising : \A j \in raising : k <= j
        args == [k \in 1..made |->
                   [population |-> pops[k], responders |-> x(k), non_responders |-> y(k)]]
    IN IF raising # {}
       \* "`x` and `y` must be of nonzero size.": the message names no population
       THEN [rows |-> <<>>, error |-> [type |-> "ValueError", populations |-> {}],
             args |-> args]
       ELSE IF pops = <<>>
       \* pl.DataFrame([]) has no column "significant" to cast
       THEN [rows |-> <<>>, error |-> [type |-> "ColumnNotFoundError", populations |-> {}],
             args |-> args]
       ELSE [rows |-> [k \in 1..Len(pops) |-> SignificanceRow(pops[k], res(k))],
             error |-> NoError, args |-> args]

---------------------------------------------------------------------------
(* Actions                                                                 *)

NoOutput ==
    [freq_df |-> <<>>, resp_df |-> <<>>, mwu_args |-> <<>>, sig_df |-> <<>>,
     sig_error |-> NoError, baseline |-> <<>>, project_counts |-> <<>>,
     response_counts |-> <<>>, sex_counts |-> <<>>,
     avg_bcell |-> [error |-> "none", value |-> NaN]]

InitWith(sources, tables) ==
    /\ csv \in sources
    /\ db_exists = FALSE
    /\ projects = {} /\ subjects = {} /\ samples = {} /\ cell_counts = <<>>
    /\ load_error = "none"
    /\ ingested = FALSE
    /\ start = "none"
    /\ ran = {}
    /\ freq_df = NoOutput.freq_df
    /\ resp_df \in tables /\ mwu_args = NoOutput.mwu_args
    /\ sig_df = NoOutput.sig_df /\ sig_error = NoOutput.sig_error
    /\ baseline = NoOutput.baseline /\ project_counts = NoOutput.project_counts
    /\ response_counts = NoOutput.response_counts /\ sex_counts = NoOutput.sex_counts
    /\ avg_bcell = NoOutput.avg_bcell

Init == InitWith(Csvs(IngestRows, MaxRows), {NoOutput.resp_df})

InitStat == InitWith(Csvs(StatRows, MaxStatRows), {NoOutput.resp_df})

\* main.py:19-21: a script run; ingestion happens only when the store file is
\* absent.  init_db (database.py:71-74) creates the file and the empty tables
\* before load_csv runs; an exception from load_csv ends the script run.
Start ==
    /\ ran' = {}
    /\ freq_df' = NoOutput.freq_df
    /\ resp_df' = NoOutput.resp_df /\ mwu_args' = NoOutput.mwu_args
    /\ sig_df' = NoOutput.sig_df /\ sig_error' = NoOutput.sig_error
    /\ baseline' = NoOutput.baseline /\ project_counts' = NoOutput.project_counts
    /\ response_counts' = NoOutput.response_counts /\ sex_counts' = NoOutput.sex_counts
    /\ avg_bcell' = NoOutput.avg_bcell
    /\ UNCHANGED csv
    /\ IF ~db_exists
       THEN /\ db_exists' = TRUE
            /\ load_csv(csv)
            /\ start' = IF load_error' = "none" THEN "ingested" ELSE "failed"
       ELSE /\ start' = "skipped"
            /\ UNCHANGED <<db_exists, store, load_error, ingested>>

\* load_csv called on the existing store (engine = init_db(DB_PATH) leaves an
\* existing schema alone)
LoadCsv ==
    /\ db_exists
    /\ load_csv(csv)
    /\ UNCHANGED <<csv, db_exists, start, ran, outputs>>

\* the script got past the ingestion guard and renders its tabs in order
Rendering == start \in {"ingested", "skipped"}

\* main.py:28-29
Tab1 ==
    /\ Rendering /\ ran = {}
    /\ freq_df' = get_frequency_table
    /\ ran' = {"tab1"}
    /\ UNCHANGED <<csv, db_exists, store, load_error, ingested, start, tab2, tab3>>

\* main.py:82-114
Tab2Freq ==
    /\ Rendering /\ ran = {"tab1"}
    /\ resp_df' = get_responder_frequencies
    /\ ran' = {"tab1", "tab2"}
    /\ UNCHANGED <<csv, db_exists, store, load_error, ingested, start, freq_df,
                   mwu_args, sig_df, sig_error, tab3>>

\* sig_df = get_significance_tests(resp_df), whatever the library does where the
\* model leaves it open
SignificanceTests ==
    \E lib \in ScipyBehaviours : \E approx \in [AsymptoticPopulations(resp_df) -> PGrid] :
        LET out == get_significance_tests(resp_df, lib, approx)
        IN /\ sig_df' = out.rows
           /\ sig_error' = out.error
           /\ mwu_args' = out.args

\* main.py:116
Tab2Sig ==
    /\ Rendering /\ ran = {"tab1", "tab2"}
    /\ SignificanceTests
    /\ ran' = {"tab1", "tab2", "sig"}
    /\ UNCHANGED <<csv, db_exists, store, load_error, ingested, start, freq_df,
                   resp_df, tab3>>

\* main.py:146-178
Tab3 ==
    /\ Rendering /\ "tab2" \in ran /\ "tab3" \notin ran /\ sig_error = NoError
    /\ LET cohort == get_baseline_samples
       IN /\ baseline' = cohort
          /\ project_counts' = GroupCount(cohort, "project_id", ProjectOrder)
          /\ response_counts' = GroupCount(BaselineSubjects(cohort), "response", ResponseOrder)
          /\ sex_counts' = GroupCount(BaselineSubjects(cohort), "sex", SexOrder)
    /\ avg_bcell' = get_avg_bcell_male_responders
    /\ ran' = ran \cup {"tab3"}
    /\ UNCHANGED <<csv, db_exists, store, load_error, ingested, start, freq_df, tab2>>

\* ingestion, data overview and subset analysis
Next == Start \/ LoadCsv \/ Tab1 \/ Tab2Freq \/ Tab3

Spec == Init /\ [][Next]_vars

\* ingestion and statistical analysis
NextStat == Start \/ LoadCsv \/ Tab1 \/ Tab2Freq \/ Tab2Sig

SpecStat == InitStat /\ [][NextStat]_vars

\* get_significance_tests as a function of its argument: a table of one population
\* with n_yes responders and n_no non-responders whose percentages are 0.01, 0.02,
\* ...; the responders hold the largest values, but for the smallest of them, which
\* lies d places lower
SigTable(n_yes, n_no, d) ==
    LET n == n_yes + n_no
        low == n - n_yes + 1 - d
        yes(i) == i = low \/ (i > n - n_yes + 1)
    IN [i \in 1..n |->
          [sample_id |-> ToString(i), population |-> "b_cell", percentage |-> i,
           response |-> IF n_yes > 0 /\ yes(i) THEN "yes" ELSE "no"]]

SigTables ==
    {SigTable(t[1], t[2], t[3]) :
        t \in {u \in (0..MaxResponders) \X (0..MaxNonResponders) \X (0..MaxNonResponders) :
                  u[3] <= u[2] /\ (u[1] = 0 => u[3] = 0)}}

InitSig == InitWith({<<>>}, SigTables)

CallSignificanceTests ==
    /\ start = "none" /\ ran = {}
    /\ SignificanceTests
    /\ ran' = {"sig"}
    /\ UNCHANGED <<csv, db_exists, store, load_error, ingested, start, freq_df,
                   resp_df, tab3>>

NextSig == CallSignificanceTests

SpecSig == InitSig /\ [][NextSig]_vars

---------------------------------------------------------------------------
(* Properties                                                              *)

\* the tables hold exactly what load_csv inserts for the source file
StoreEqualsSource ==
    /\ projects = Range(NewProjects(csv))
    /\ subjects = Range(NewSubjects(csv))
    /\ samples = Range(NewSamples(csv))
    /\ cell_counts = NewCellCounts(csv)

RowCounts ==
    <<Cardinality(projects), Cardinality(subjects), Cardinality(samples), Len(cell_counts)>>

\* C1: load_csv called on a store that holds the data of an earlier successful load of
\* the same (non-empty) source raises and leaves the row counts of the four tables
\* as they were.
C1_DuplicateLoadRejected ==
    [][(LoadCsv /\ ingested /\ csv # <<>> /\ StoreEqualsSource)
         => (load_error' = "IntegrityError" /\ RowCounts' = RowCounts)]_vars

\* C1 witness: a second load was rejected and the loaded data is still in place
C1_Witness ==
    load_error = "IntegrityError" /\ ingested /\ csv # <<>> /\ StoreEqualsSource

\* C2: after a successful load the store holds at most one CellCount row per
\* (sample, population) pair, also when a sample id appears in several source rows.
C2_OneCellCountPerSamplePopulation ==
    ingested =>
        \A i, j \in 1..Len(cell_counts) :
            (/\ cell_counts[i].sample_id = cell_counts[j].sample_id
             /\ cell_counts[i].population = cell_counts[j].population) => i = j

\* the ids that appear in more than one source row
RepeatedIds(col) ==
    {csv[i][col] : i \in {k \in 1..Len(csv) : \E j \in 1..Len(csv) : j # k /\ csv[j][col] = csv[k][col]}}

OneRowWithId(table, id) == Cardinality({t \in table : t.id = id}) = 1

\* C3: for every Project, Subject or Sample id that appears in several
\* source rows, whatever their other columns hold, the first load succeeds and
\* inserts exactly one entity with that id.
C3_DedupByNaturalKey ==
    start \in {"ingested", "failed"} =>
        /\ \A id \in RepeatedIds("project") : start = "ingested" /\ OneRowWithId(projects, id)
        /\ \A id \in RepeatedIds("subject") : start = "ingested" /\ OneRowWithId(subjects, id)
        /\ \A id \in RepeatedIds("sample") : start = "ingested" /\ OneRowWithId(samples, id)

RECURSIVE SumPercentages(_)
SumPercentages(df) ==
    IF df = <<>> THEN 0 ELSE Head(df).percentage + SumPercentages(Tail(df))

\* C8: for every sample with total_count > 0 in the frequency table, the rounded
\* percentages of its rows sum to 100.00 within 0.05.
C8_PercentagesSumTo100 ==
    "tab1" \in ran =>
        \A i \in 1..Len(freq_df) :
            freq_df[i].total_count > 0 =>
                LET total == SumPercentages(
                                SelectSeq(freq_df, LAMBDA r : r.sample = freq_df[i].sample))
                IN total - 10000 \in -5..5

\* C9: every row of the responder frequencies carries the percentage the frequency
\* table has for the same sample and population, and the cohort restriction leaves
\* the total count of each of its samples unchanged.
C9_ResponderFrequenciesAgree ==
    "tab2" \in ran =>
        \A i \in 1..Len(resp_df) :
            /\ \E j \in 1..Len(freq_df) :
                  /\ freq_df[j].sample = resp_df[i].sample_id
                  /\ freq_df[j].population = resp_df[i].population
                  /\ freq_df[j].percentage = resp_df[i].percentage
            /\ TotalCount(SelectSeq(JoinCellCounts, InResponderCohort), resp_df[i].sample_id)
               = TotalCount(JoinCellCounts, resp_df[i].sample_id)

\* C9 witness: the responder frequencies were computed on a store that holds
\* samples inside and outside the cohort
C9_Witness ==
    /\ "tab2" \in ran
    /\ resp_df # <<>>
    /\ Len(resp_df) < Len(freq_df)

\* C7: the per-response subject counts of tab3 sum to the number of distinct
\* subject ids of the baseline cohort, however many samples a subject contributes.
C7_ResponseCountsSumToSubjects ==
    "tab3" \in ran =>
        SumN(response_counts) = Cardinality({baseline[i].subject_id : i \in 1..Len(baseline)})

\* C7 witness: tab3 ran on a cohort in which one subject has two baseline samples
\* and another subject has a different response
C7_Witness ==
    /\ "tab3" \in ran
    /\ \E i, j \in 1..Len(baseline) : i # j /\ baseline[i].subject_id = baseline[j].subject_id
    /\ Len(response_counts) = 2

\* C10: a script run that skips ingestion because the store file exists queries a
\* store that holds the fully ingested source.
C10_SkippedStartSeesIngestedStore ==
    start = "skipped" => ingested /\ StoreEqualsSource

\* C4: in every row of the significance table, significant equals
\* (p_value < 0.05) for the rounded p_value of that row.
C4_SignificantMatchesReportedP ==
    "sig" \in ran =>
        \A i \in 1..Len(sig_df) :
            sig_df[i].significant = (sig_df[i].p_value # NaN /\ sig_df[i].p_value < 500)

\* the populations of the table whose "yes" or "no" group is empty
EmptyGroupPopulations(df) ==
    {df[i].population : i \in 1..Len(df)} \cap
    {q \in Range(CELL_POPULATIONS) :
        GroupPercentages(df, q, "yes") = <<>> \/ GroupPercentages(df, q, "no") = <<>>}

\* C5: when a population of the input table has an empty "yes" or "no" group,
\* get_significance_tests ends in an error that names that population and returns
\* no row with a placeholder statistic.
C5_EmptyGroupFailsLoudly ==
    ("sig" \in ran /\ EmptyGroupPopulations(resp_df) # {}) =>
        /\ sig_error.type # "none"
        /\ sig_error.populations \cap EmptyGroupPopulations(resp_df) # {}
        /\ \A i \in 1..Len(sig_df) : sig_df[i].u_statistic # NaN

\* C6: a sample whose total_count is 0 gets a missing percentage (never 0) without
\* an error, and no missing percentage is handed to the rank-sum test.
C6_ZeroTotalExcludedFromTest ==
    /\ "tab2" \in ran =>
          \A i \in 1..Len(resp_df) :
              TotalCount(JoinCellCounts, resp_df[i].sample_id) = 0
                  => resp_df[i].percentage = NaN
    /\ "sig" \in ran =>
          \A k \in 1..Len(mwu_args) :
              NaN \notin Range(mwu_args[k].responders) \cup Range(mwu_args[k].non_responders)

====
